---------------------------- MODULE Spec2Model ----------------------------
(***************************************************************************)
(* A model of the two batch scripts of the repository:                     *)
(*   scrape_urls.py             (the Fetcher)                              *)
(*   generate_synthetic_data.py (the Synthesizer)                          *)
(* and of the pydantic schema of models.py they share.  The Fetcher runs   *)
(* first and writes gov_pages_with_body_content.json; the Synthesizer      *)
(* then loads that file.                                                   *)
(*                                                                         *)
(* Text is a sequence of tokens: "" is << >>, + is \o.  A JSON / Python    *)
(* value that may be a string or None is a record [t, s].  A dict is a     *)
(* function whose DOMAIN is its key set.                                   *)
(***************************************************************************)
EXTENDS Naturals, Sequences, FiniteSets

\* ------------------------------------------------------------ bounds
\* longest input whose pages are chosen freely
MaxPaths == 2
\* long inputs are k full batches (k <= MaxFullBatches) plus up to MaxRem paths
MaxFullBatches == 2
MaxRem == 1
\* paths of one Fetcher run whose requests meet a 429 or a request error
MaxFaultyPaths == 1
\* records of one Synthesizer run for which a language-model call fails
MaxFailures == 1
\* times the Synthesizer is run on the Fetcher's file
MaxRuns == 2
\* clock resolution, and the most time a batch's requests take on their own
TicksPerSecond == 2
MaxBatchTicks == 3
\* rows of a short csv, whose paths repeat in any order, and the repeated rows
\* that follow the paths of a csv of one full batch
MaxRows == 3
MaxRepeats == 1

\* ------------------------------------------------- program constants
FetchBatchSize == 10
SynthBatchSize == 10
RetryWaitSeconds == 5
ThrottleSeconds == 1
PauseSeconds == 1

\* ------------------------------------------------------------ values
None == [t |-> "none", s |-> << >>]
Str(s) == [t |-> "str", s |-> s]

\* bool(v) of an optional string
Truthy(v) == v.t = "str" /\ v.s # << >>

\* d.get(k) and d.get(k, default)
Get(d, k) == IF k \in DOMAIN d THEN d[k] ELSE None
GetOr(d, k, default) == IF k \in DOMAIN d THEN d[k] ELSE default

\* str(v) inside an f-string
Format(v) == IF v.t = "none" THEN <<"None">> ELSE v.s

\* ------------------------------------------------ models.py (schema)
RequiredStrFields == {"title", "base_path", "content_id", "document_type", "schema_name"}
RequiredObjFields == {"details", "links"}
ModelKeys ==
    {"title", "base_path", "content_id", "description", "document_type",
     "schema_name", "locale", "api_path", "web_url", "details", "links",
     "public_updated_at", "first_published_at", "withdrawn", "synthetic_data"}

\* a slip: the string fields of GovPage declared Optional
ValidationLax(response) == \E f \in RequiredObjFields : f \notin DOMAIN response

\* GovPage(**response) raises a ValidationError
ValidationFails(response) ==
    \/ \E f \in RequiredStrFields : f \notin DOMAIN response \/ response[f].t # "str"
    \/ \E f \in RequiredObjFields : f \notin DOMAIN response

\* GovPageDetails(**details): unknown keys ignored, absent keys default to None
GovPageDetails(details) ==
    [body |-> Get(details, "body"),
     parts |-> IF "parts" \in DOMAIN details
               THEN [t |-> "list", s |-> details["parts"]] ELSE None]

\* GovPage(**response) for a response that validates
GovPage(response) ==
    [title |-> Get(response, "title"),
     base_path |-> Get(response, "base_path"),
     content_id |-> Get(response, "content_id"),
     document_type |-> Get(response, "document_type"),
     schema_name |-> Get(response, "schema_name"),
     details |-> GovPageDetails(GetOr(response, "details", << >>)),
     synthetic_data |-> None]

\* ArticleSnippets(snippets=...)
ArticleSnippets(snippets) == [t |-> "snippets", snippets |-> snippets]

\* SyntheticData(poorly_written_article=..., article_snippets=...); article_snippets
\* is Optional and defaults to None
SyntheticData(article, snippets) ==
    [t |-> "synthetic", poorly_written_article |-> article, article_snippets |-> snippets]


\* ------------------------------------ the GOV.UK Content API's pages
EmptyDict == << >>
Without(d, k) == [x \in DOMAIN d \ {k} |-> d[x]]
With(d, k, v) == [x \in DOMAIN d \cup {k} |-> IF x = k THEN v ELSE d[x]]

\* a well-formed response of the given document type
Base(dt) ==
    [title |-> Str(<<"T">>), base_path |-> Str(<<"/p">>), content_id |-> Str(<<"id">>),
     document_type |-> Str(<<dt>>), schema_name |-> Str(<<"s">>),
     details |-> [body |-> Str(<<"<p>x</p>">>)],
     links |-> [organisations |-> << >>]]

GuideParts ==
    << [title |-> Str(<<"A">>), body |-> Str(<<"<p>a</p>">>)],
       [title |-> Str(<<"N">>)],
       [body |-> Str(<<"<p>b</p>">>)],
       [title |-> Str(<<"E">>), body |-> Str(<< >>)] >>
GuidePartsOddTitles ==
    << [title |-> None, body |-> Str(<<"<p>a</p>">>)],
       [title |-> Str(<< >>), body |-> Str(<<"<p>b</p>">>)] >>
GuidePartsNoBodies ==
    << [title |-> Str(<<"A">>)], [title |-> Str(<<"N">>), body |-> None] >>

PageKinds ==
    {"article", "placeholder", "redirect", "government", "mainstream_browse_page",
     "guide", "guide_odd_titles", "guide_no_bodies", "no_title", "empty_title",
     "extra_field", "no_body", "blank_html"}

\* response.json() of the page of each kind
Page(kind) ==
    CASE kind = "article" -> Base("answer")
      [] kind = "placeholder" -> Base("placeholder")
      [] kind = "redirect" -> Without(Base("redirect"), "details")
      [] kind = "government" -> Base("government")
      [] kind = "mainstream_browse_page" -> Without(Base("mainstream_browse_page"), "title")
      [] kind = "guide" -> With(Base("guide"), "details", [parts |-> GuideParts])
      [] kind = "guide_odd_titles" ->
            With(Base("guide"), "details", [parts |-> GuidePartsOddTitles])
      [] kind = "guide_no_bodies" ->
            With(Base("guide"), "details",
                 [body |-> Str(<<"<p>x</p>">>), parts |-> GuidePartsNoBodies])
      [] kind = "no_title" -> Without(Base("answer"), "title")
      [] kind = "empty_title" -> With(Base("answer"), "title", Str(<< >>))
      [] kind = "extra_field" -> With(Base("answer"), "phase", Str(<<"live">>))
      [] kind = "no_body" -> With(Base("answer"), "details", [current |-> Str(<<"y">>)])
      [] kind = "blank_html" ->
            With(Base("answer"), "details", [body |-> Str(<<"<p></p>">>)])

\* ------------------------------------------ scrape_urls.py, pure parts
\* html2text of one token
HtmlToken(tok) ==
    CASE tok = "<p>x</p>" -> <<"x">>
      [] tok = "<p>a</p>" -> <<"a">>
      [] tok = "<p>b</p>" -> <<"b">>
      [] tok = "<p></p>" -> << >>
      [] tok = "\n\n## " -> <<"\n\n", "## ">>
      [] OTHER -> <<tok>>

RECURSIVE Handle(_)
Handle(html) == IF html = << >> THEN << >> ELSE HtmlToken(Head(html)) \o Handle(Tail(html))

RECURSIVE LStrip(_)
LStrip(s) == IF s # << >> /\ Head(s) = "\n\n" THEN LStrip(Tail(s)) ELSE s
RECURSIVE RStrip(_)
RStrip(s) ==
    IF s # << >> /\ s[Len(s)] = "\n\n" THEN RStrip(SubSeq(s, 1, Len(s) - 1)) ELSE s

\* h.handle(html_content).strip()
convert_html_to_markdown(html_content) == RStrip(LStrip(Handle(html_content)))

\* for part in parts: if part.get('body'): combined_body += heading; += part['body']
RECURSIVE combined_body(_)
combined_body(parts) ==
    IF parts = << >> THEN << >>
    ELSE LET part == Head(parts)
             piece == IF Truthy(Get(part, "body"))
                      THEN <<"\n\n## ">>
                           \o Format(GetOr(part, "title", Str(<<"Untitled Section">>)))
                           \o <<"\n\n">> \o part["body"].s
                      ELSE << >>
         IN  piece \o combined_body(Tail(parts))

IsGuideWithParts(response) ==
    /\ Get(response, "document_type") = Str(<<"guide">>)
    /\ "parts" \in DOMAIN GetOr(response, "details", EmptyDict)

\* the response after the guide branch has replaced response['details']['body']
NormalizeGuide(response) ==
    IF IsGuideWithParts(response)
    THEN With(response, "details",
              With(response["details"], "body",
                   Str(combined_body(response["details"]["parts"]))))
    ELSE response

important_fields == <<"title", "base_path", "content_id", "document_type">>
missing_fields(response) ==
    SelectSeq(important_fields, LAMBDA field : ~Truthy(Get(response, field)))
dropped_fields(response) == DOMAIN response \ ModelKeys

FETCH_SKIP_TYPES == {Str(<<"placeholder">>), Str(<<"redirect">>)}
SKIP_TYPES == {Str(<<"government">>), Str(<<"mainstream_browse_page">>)}


Min(a, b) == IF a < b THEN a ELSE b
Range(f) == {f[x] : x \in DOMAIN f}

\* drop_duplicates keeping the last occurrence of each path instead of the first
RECURSIVE drop_duplicates_last(_)
drop_duplicates_last(column) ==
    IF column = << >> THEN << >>
    ELSE IF Head(column) \in Range(Tail(column))
         THEN drop_duplicates_last(Tail(column))
         ELSE <<Head(column)>> \o drop_duplicates_last(Tail(column))

\* df.drop_duplicates(subset=['Path']): the first occurrence of each path is kept
RECURSIVE drop_duplicates(_)
drop_duplicates(column) ==
    IF column = << >> THEN << >>
    ELSE LET front == drop_duplicates(SubSeq(column, 1, Len(column) - 1))
             last == column[Len(column)]
         IN  IF last \in Range(front) THEN front ELSE Append(front, last)

\* -------------------------------------------------------------- state
VARIABLES
    site,            \* the page the API serves at each path
    csv,             \* ./data/filtered_gov_uk_paths.csv: exists, Path column
    fpc,             \* the Fetcher's position
    paths,           \* batch_query_govuk_api: paths
    fi,              \* batch_query_govuk_api: i, the offset of the batch
    fj,              \* paths of the batch already queried
    results,         \* batch_query_govuk_api: results
    requests,        \* every GET issued, in order: its path and how it ended
    faulty,          \* paths whose requests met a 429 or an error so far
    now,             \* the wall clock, in ticks
    batch_start,     \* batch_query_govuk_api: batch_start
    batch_starts,    \* the value of batch_start of every batch so far
    ri,              \* process_pages: results already handled
    gov_pages,       \* process_pages: gov_pages
    skipped_types,   \* process_pages: skipped_types
    flog,            \* what the Fetcher logged and printed
    json_file,       \* ./data/gov_pages_with_body_content.json
    fexit            \* the Fetcher's exit code

fvars == <<site, csv, fpc, paths, fi, fj, results, requests, faulty, now, batch_start,
           batch_starts, ri, gov_pages, skipped_types, flog, json_file, fexit>>

VARIABLES
    spc,              \* the Synthesizer's position
    pages,            \* main: pages
    si,               \* main: i, the offset of the batch
    sk,               \* process_batch: pages of the batch already handled
    processed_pages,  \* main: processed_pages
    total_snippets,   \* main: total_snippets
    pauses,           \* every time.sleep of main: the batch offset i, the seconds
    calls,            \* every language-model call made: <<page index, request>>
    failed,           \* the pages for which a call has failed in this run
    runs,             \* earlier runs of the Synthesizer on this input file
    clean_runs,       \* the pages each of them augmented
    out_file,         \* ./data/gov_pages_with_synthetic_content.json
    sexit             \* how the Synthesizer ended

svars == <<spc, pages, si, sk, processed_pages, total_snippets, pauses, calls, failed,
           runs, clean_runs, out_file, sexit>>
vars == <<fvars, svars>>

Second == TicksPerSecond
NoExit == "running"
NoFile == [exists |-> FALSE, pages |-> << >>]
Event(what, path) == [what |-> what, path |-> path]

\* ------------------------------------------------------- the inputs
\* a short input with any pages, or k full batches and a remainder of articles
Lengths == {k * FetchBatchSize + r : k \in 1..MaxFullBatches, r \in 0..MaxRem}
Sites ==
    UNION {[1..n -> PageKinds] : n \in 0..MaxPaths}
    \cup {[p \in 1..n |-> "article"] : n \in Lengths}

\* the Path column of the csv: every path of the site once, in order; for a short
\* site of articles also any rows over its paths, repeated and in any order; for
\* one of a full batch also its paths followed by repeats of the first ones
Columns(s) ==
    {[p \in 1..Len(s) |-> p]}
    \cup (IF Len(s) <= MaxPaths /\ \A p \in DOMAIN s : s[p] = "article"
          THEN UNION {[1..n -> DOMAIN s] : n \in 0..MaxRows}
          ELSE {})
    \cup (IF Len(s) = FetchBatchSize
          THEN {[p \in 1..(Len(s) + n) |-> IF p <= Len(s) THEN p ELSE p - Len(s)]
                  : n \in 1..MaxRepeats}
          ELSE {})

FetcherInit ==
    /\ site \in Sites
    /\ csv \in {[exists |-> TRUE, Path |-> c] : c \in Columns(site)}
                 \cup (IF site = << >> THEN {[exists |-> FALSE, Path |-> << >>]} ELSE {})
    /\ fpc = "start"
    /\ paths = << >> /\ fi = 0 /\ fj = 0 /\ results = << >> /\ requests = << >>
    /\ faulty = 0 /\ now = 0 /\ batch_start = 0 /\ batch_starts = << >>
    /\ ri = 0 /\ gov_pages = << >> /\ skipped_types = EmptyDict /\ flog = << >>
    /\ json_file = NoFile /\ fexit = NoExit

\* ------------------------------------------------ Fetcher: main()
\* main, load_data, drop_duplicates, and the entry of process_pages and
\* batch_query_govuk_api
FMain ==
    /\ fpc = "start"
    /\ IF csv.exists
       THEN /\ paths' = drop_duplicates(csv.Path)
            /\ fpc' = "batch"
            /\ UNCHANGED <<flog, fexit>>
       ELSE /\ flog' = Append(flog, Event("file_not_found", 0))
            /\ fpc' = "aborted" /\ fexit' = "1"
            /\ UNCHANGED paths
    /\ UNCHANGED <<site, csv, fi, fj, results, requests, faulty, now, batch_start,
                   batch_starts, ri, gov_pages, skipped_types, json_file>>
    /\ UNCHANGED svars

\* ------------------------------- Fetcher: batch_query_govuk_api
batch == SubSeq(paths, fi + 1, Min(fi + FetchBatchSize, Len(paths)))

\* for i in range(0, len(paths), batch_size): batch = ...; batch_start = time.time()
BatchStart ==
    /\ fpc = "batch" /\ fi < Len(paths)
    /\ batch_start' = now
    /\ batch_starts' = Append(batch_starts, now)
    /\ fj' = 0
    /\ fpc' = "query"
    /\ UNCHANGED <<site, csv, paths, fi, results, requests, faulty, now, ri, gov_pages,
                   skipped_types, flog, json_file, fexit>>
    /\ UNCHANGED svars

Outcomes == {"ok", "429", "http_error", "connection_error"}

\* a slip: every HTTP error status is retried
RetriesAnyError(first) == first \in {"429", "http_error"}

\* whether a second GET is issued after the first one
Retries(first) == first = "429"

\* the outcome the code acts on
FinalOutcome(first, second) == IF Retries(first) THEN second ELSE first

\* what the try block appends for a path, and what it logs
QueryResult(path, final) ==
    IF final = "ok"
    THEN LET data == Page(site[path])
         IN  IF Get(data, "document_type") \in FETCH_SKIP_TYPES
             THEN [path |-> path, response |-> None]
             ELSE [path |-> path, response |-> data]
    ELSE [path |-> path, response |-> None]

QueryLog(path, final) ==
    IF final = "ok"
    THEN IF Get(Page(site[path]), "document_type") \in FETCH_SKIP_TYPES
         THEN <<Event("skipping_content", path)>> ELSE << >>
    ELSE <<Event("error_querying", path)>>

\* the body of "for path in batch": one or two GETs, then one results.append
QueryPath ==
    /\ fpc = "query" /\ fj < Len(batch)
    /\ \E first \in Outcomes, second \in Outcomes :
         LET path == batch[fj + 1]
             final == FinalOutcome(first, second)
         IN  /\ first # "ok" => faulty < MaxFaultyPaths
             /\ ~Retries(first) => second = "ok"
             /\ faulty' = IF first # "ok" THEN faulty + 1 ELSE faulty
             /\ requests' = requests \o <<[path |-> path, status |-> first]>>
                             \o (IF Retries(first)
                                 THEN <<[path |-> path, status |-> second]>> ELSE << >>)
             /\ now' = IF Retries(first) THEN now + RetryWaitSeconds * Second ELSE now
             /\ results' = Append(results, QueryResult(path, final))
             /\ flog' = flog \o (IF Retries(first) THEN <<Event("rate_limit", path)>> ELSE << >>)
                             \o QueryLog(path, final)
    /\ fj' = fj + 1
    /\ UNCHANGED <<site, csv, fpc, paths, fi, batch_start, batch_starts, ri, gov_pages,
                   skipped_types, json_file, fexit>>
    /\ UNCHANGED svars

\* a slip: the elapsed time is slept, not the remainder
ThrottleSleepElapsed(batch_duration) ==
    IF batch_duration < ThrottleSeconds * Second THEN batch_duration ELSE 0

\* time.sleep(1 - batch_duration) when the batch took less than a second
ThrottleSleep(batch_duration) ==
    IF batch_duration < ThrottleSeconds * Second
    THEN ThrottleSeconds * Second - batch_duration ELSE 0

\* the end of a batch: the requests took d ticks beyond the retry waits
BatchEnd ==
    /\ fpc = "query" /\ fj = Len(batch)
    /\ \E d \in 0..MaxBatchTicks :
         LET batch_duration == (now + d) - batch_start
         IN  now' = now + d + ThrottleSleep(batch_duration)
    /\ fi' = fi + FetchBatchSize
    /\ fpc' = "batch"
    /\ UNCHANGED <<site, csv, paths, fj, results, requests, faulty, batch_start,
                   batch_starts, ri, gov_pages, skipped_types, flog, json_file, fexit>>
    /\ UNCHANGED svars

\* return results, back in process_pages
BatchReturn ==
    /\ fpc = "batch" /\ fi >= Len(paths)
    /\ ri' = 0 /\ gov_pages' = << >> /\ skipped_types' = EmptyDict
    /\ fpc' = "process"
    /\ UNCHANGED <<site, csv, paths, fi, fj, results, requests, faulty, now, batch_start,
                   batch_starts, flog, json_file, fexit>>
    /\ UNCHANGED svars


\* ------------------------------------------- Fetcher: process_pages
\* "if not response": None or an empty dict
NoResponse(response) == response = None \/ DOMAIN response = {}

\* what the try block of process_pages does with a response that is not skipped:
\* "error" (an exception, sys.exit(1)), "no_body" (sys.exit(1)) or "append"
TryOutcome(response) ==
    LET normalized == NormalizeGuide(response)
    IN  IF ValidationFails(normalized) THEN "error"
        ELSE IF Truthy(GovPage(normalized).details.body) THEN "append"
        ELSE "no_body"

\* the record appended to gov_pages: the body converted to markdown in place
FinishedPage(response) ==
    LET gov_page == GovPage(NormalizeGuide(response))
    IN  [gov_page EXCEPT !.details.body = Str(convert_html_to_markdown(gov_page.details.body.s))]

\* the warnings of the try block, in the order they are logged
TryWarnings(path, response) ==
    (IF missing_fields(response) # << >> THEN <<Event("missing_fields", path)>> ELSE << >>)
    \o (IF ~ValidationFails(NormalizeGuide(response)) /\ dropped_fields(response) # {}
        THEN <<Event("dropped_fields", path)>> ELSE << >>)

\* a slip: the counter is set, not incremented
TallyOnce(skipped, doc_type) == With(skipped, doc_type, 1)

\* skipped_types[doc_type] = skipped_types.get(doc_type, 0) + 1
Tally(skipped, doc_type) == With(skipped, doc_type, GetOr(skipped, doc_type, 0) + 1)

\* a slip: a record that cannot be finished is skipped
AfterTrySkip(outcome) == "process"

\* where process_pages goes after the try block: the next result, or sys.exit(1)
AfterTry(outcome) == IF outcome = "append" THEN "process" ELSE "aborted"

\* one iteration of "for path, response in results"
ProcessResult ==
    /\ fpc = "process" /\ ri < Len(results)
    /\ LET path == results[ri + 1].path
           response == results[ri + 1].response
       IN  IF NoResponse(response)
           THEN /\ ri' = ri + 1
                /\ UNCHANGED <<fpc, gov_pages, skipped_types, flog, fexit>>
           ELSE IF Get(response, "document_type") \in SKIP_TYPES
           THEN LET doc_type == response["document_type"].s[1]
                IN  /\ skipped_types' = Tally(skipped_types, doc_type)
                    /\ flog' = Append(flog, Event("skipping_document", path))
                    /\ ri' = ri + 1
                    /\ UNCHANGED <<fpc, gov_pages, fexit>>
           ELSE LET outcome == TryOutcome(response)
                IN  /\ gov_pages' = IF outcome = "append"
                                    THEN Append(gov_pages, FinishedPage(response))
                                    ELSE gov_pages
                    /\ flog' = flog \o TryWarnings(path, response)
                                 \o (IF outcome = "append" THEN << >>
                                     ELSE <<Event(outcome, path)>>)
                    /\ fpc' = AfterTry(outcome)
                    /\ ri' = IF fpc' = "process" THEN ri + 1 ELSE ri
                    /\ fexit' = IF fpc' = "aborted" THEN "1" ELSE fexit
                    /\ UNCHANGED skipped_types
    /\ UNCHANGED <<site, csv, paths, fi, fj, results, requests, faulty, now, batch_start,
                   batch_starts, json_file>>
    /\ UNCHANGED svars

\* return gov_pages, skipped_types; the summary; json.dump to the output file
MainSave ==
    /\ fpc = "process" /\ ri = Len(results)
    /\ json_file' = [exists |-> TRUE, pages |-> gov_pages]
    /\ flog' = Append(flog, Event("saved", Len(gov_pages)))
    /\ fpc' = "done" /\ fexit' = "0"
    /\ UNCHANGED <<site, csv, paths, fi, fj, results, requests, faulty, now, batch_start,
                   batch_starts, ri, gov_pages, skipped_types>>
    /\ UNCHANGED svars

\* the process ends and its memory with it; the files stay
FetcherExit ==
    /\ fpc \in {"done", "aborted"}
    /\ fpc' = "exited"
    /\ paths' = << >> /\ fi' = 0 /\ fj' = 0 /\ results' = << >> /\ requests' = << >>
    /\ faulty' = 0 /\ batch_start' = 0
    /\ ri' = 0 /\ gov_pages' = << >> /\ skipped_types' = EmptyDict /\ flog' = << >>
    /\ UNCHANGED <<site, csv, now, batch_starts, json_file, fexit>>
    /\ UNCHANGED svars


\* =========================================== generate_synthetic_data.py
SynthInit ==
    /\ spc = "idle"
    /\ pages = << >> /\ si = 0 /\ sk = 0 /\ processed_pages = << >>
    /\ total_snippets = 0 /\ pauses = << >> /\ calls = << >> /\ failed = {}
    /\ runs = 0 /\ clean_runs = << >>
    /\ out_file = NoFile /\ sexit = NoExit

\* the language model, taken as a function of the article
poorly_written_article(body) == <<"poorly: ">> \o body
article_snippets(body) ==
    [n \in 1..Len(body) |->
        [well_written_snippet |-> <<body[n]>>, badly_written_snippet |-> <<"badly: ", body[n]>>]]

\* main up to the loop, with load_gov_pages: a missing file is re-raised
SMain ==
    /\ spc = "idle" /\ fpc = "exited"
    /\ IF json_file.exists
       THEN /\ pages' = json_file.pages
            /\ spc' = "loop"
            /\ UNCHANGED sexit
       ELSE /\ spc' = "crashed" /\ sexit' = "FileNotFoundError"
            /\ UNCHANGED pages
    /\ UNCHANGED <<si, sk, processed_pages, total_snippets, pauses, calls, failed, runs,
                   clean_runs, out_file>>
    /\ UNCHANGED fvars

\* process_batch: batch = pages[start_idx:end_idx]
sbatch == SubSeq(pages, si + 1, Min(si + SynthBatchSize, Len(pages)))

\* for i in range(0, len(pages), batch_size): the call of process_batch
SBatchStart ==
    /\ spc = "loop" /\ si < Len(pages)
    /\ sk' = 0
    /\ spc' = "batch"
    /\ UNCHANGED <<pages, si, processed_pages, total_snippets, pauses, calls, failed, runs,
                   clean_runs, out_file, sexit>>
    /\ UNCHANGED fvars

CallOutcomes == {"ok", "fail"}

\* whether get_article_snippets is called after get_synthetic_text
CallsSnippets(rewrite) == rewrite = "ok"

\* a slip: the rewrite is attached as soon as it arrives
AugmentedPartial(page, rewrite, extract) ==
    IF rewrite = "ok"
    THEN SyntheticData(poorly_written_article(page.details.body.s),
                       IF extract = "ok"
                       THEN ArticleSnippets(article_snippets(page.details.body.s))
                       ELSE None)
    ELSE page.synthetic_data

\* page.synthetic_data after the try block
Augmented(page, rewrite, extract) ==
    IF rewrite = "ok" /\ extract = "ok"
    THEN SyntheticData(poorly_written_article(page.details.body.s),
                       ArticleSnippets(article_snippets(page.details.body.s)))
    ELSE page.synthetic_data

\* a slip: the test of the body left out
HasBodyAlways(page) == page.details.body.t = "str"

\* whether process_batch sends the page to the model
HasBody(page) == Truthy(page.details.body)

\* a slip: the exception of a failed call is not caught
AfterPageRaise(page_failed) == IF page_failed THEN "crashed" ELSE "batch"

\* where process_batch goes after a page: the except clause logs, the loop goes on
AfterPage(page_failed) == "batch"

\* one iteration of "for page in batch" of process_batch
ProcessPage ==
    /\ spc = "batch" /\ sk < Len(sbatch)
    /\ LET idx == si + sk + 1
           page == pages[idx]
       IN  IF HasBody(page)
           THEN \E rewrite \in CallOutcomes, extract \in CallOutcomes :
                  LET page_failed == rewrite = "fail" \/ extract = "fail"
                  IN  /\ page_failed => Cardinality(failed) < MaxFailures
                      /\ ~CallsSnippets(rewrite) => extract = "ok"
                      /\ failed' = IF page_failed THEN failed \cup {idx} ELSE failed
                      /\ spc' = AfterPage(page_failed)
                      /\ sexit' = IF spc' = "crashed" THEN "Exception" ELSE sexit
                      /\ calls' = calls \o <<<<idx, "rewrite">>>>
                                   \o (IF CallsSnippets(rewrite)
                                       THEN <<<<idx, "snippets">>>> ELSE << >>)
                      /\ pages' = [pages EXCEPT ![idx].synthetic_data =
                                                    Augmented(page, rewrite, extract)]
           ELSE UNCHANGED <<spc, pages, calls, failed, sexit>>
    /\ sk' = sk + 1
    /\ UNCHANGED <<si, processed_pages, total_snippets, pauses, runs, clean_runs, out_file>>
    /\ UNCHANGED fvars

\* the snippets main counts for the pages of a batch
RECURSIVE CountSnippets(_)
CountSnippets(b) ==
    IF b = << >> THEN 0
    ELSE (IF Head(b).synthetic_data # None
             /\ Head(b).synthetic_data.article_snippets # None
          THEN Len(Head(b).synthetic_data.article_snippets.snippets) ELSE 0)
         + CountSnippets(Tail(b))

\* whether main sleeps after the batch at offset i
PausesAfter(i, n) == i + SynthBatchSize < n

\* process_batch returns; main extends processed_pages, counts, prints and pauses
SBatchEnd ==
    /\ spc = "batch" /\ sk = Len(sbatch)
    /\ processed_pages' = processed_pages \o sbatch
    /\ total_snippets' = total_snippets + CountSnippets(sbatch)
    /\ pauses' = IF PausesAfter(si, Len(pages))
                 THEN Append(pauses, [after |-> si, seconds |-> PauseSeconds]) ELSE pauses
    /\ si' = si + SynthBatchSize
    /\ spc' = "loop"
    /\ UNCHANGED <<pages, sk, calls, failed, runs, clean_runs, out_file, sexit>>
    /\ UNCHANGED fvars

\* after the loop: json.dump of processed_pages
SSave ==
    /\ spc = "loop" /\ si >= Len(pages)
    /\ out_file' = [exists |-> TRUE, pages |-> processed_pages]
    /\ spc' = "stats"
    /\ UNCHANGED <<pages, si, sk, processed_pages, total_snippets, pauses, calls, failed, runs,
                   clean_runs, sexit>>
    /\ UNCHANGED fvars

\* whether the final statistics can be printed: they divide by len(processed_pages)
StatsRaise(n) == n = 0

\* the final statistics
SStats ==
    /\ spc = "stats"
    /\ IF StatsRaise(Len(processed_pages))
       THEN spc' = "crashed" /\ sexit' = "ZeroDivisionError"
       ELSE spc' = "done" /\ sexit' = "0"
    /\ UNCHANGED <<pages, si, sk, processed_pages, total_snippets, pauses, calls, failed, runs,
                   clean_runs, out_file>>
    /\ UNCHANGED fvars

\* ------------------------------------------------------ the pipeline
\* the pages of a sequence that carry a synthetic augmentation
AugmentedIn(seq) == {n \in DOMAIN seq : seq[n].synthetic_data # None}

\* the process has ended, and its memory with it; after a run in which no call
\* failed the script is run again on the same input file
SRerun ==
    /\ spc = "done" /\ failed = {} /\ runs + 1 < MaxRuns
    /\ runs' = runs + 1
    /\ clean_runs' = Append(clean_runs, AugmentedIn(out_file.pages))
    /\ spc' = "idle"
    /\ pages' = << >> /\ si' = 0 /\ sk' = 0 /\ processed_pages' = << >>
    /\ total_snippets' = 0 /\ pauses' = << >> /\ calls' = << >> /\ failed' = {}
    /\ sexit' = NoExit
    /\ UNCHANGED out_file
    /\ UNCHANGED fvars

Init == FetcherInit /\ SynthInit
Next ==
    \/ FMain \/ BatchStart \/ QueryPath \/ BatchEnd \/ BatchReturn
    \/ ProcessResult \/ MainSave \/ FetcherExit
    \/ SMain \/ SBatchStart \/ ProcessPage \/ SBatchEnd \/ SSave \/ SStats \/ SRerun
Spec == Init /\ [][Next]_vars


\* ============================================================ claims
\* the run of the Synthesizer has written its output file
Persisted == spc \in {"stats", "done"} \/ (spc = "crashed" /\ sexit = "ZeroDivisionError")

\* the record's body is a string that is not empty
NonEmptyBody(page) == page.details.body.t = "str" /\ Len(page.details.body.s) > 0

\* page with its synthetic augmentation taken off
Bare(page) == [page EXCEPT !.synthetic_data = None]

\* C1: a failed language-model call for record N does not stop the run, every
\* later record with a body is still sent to the model, and when both calls
\* succeed for record N+1 the persisted sequence holds the input records in input
\* order, record N without augmentation and record N+1 with one.
C1_PartialFailureIsolation ==
    /\ failed # {} => spc # "crashed"
    /\ Persisted =>
         LET input == json_file.pages
             out == out_file.pages
         IN  \A N \in failed :
               /\ \A m \in (N + 1)..Len(input) :
                     NonEmptyBody(input[m]) => <<m, "rewrite">> \in Range(calls)
               /\ (N + 1 \in DOMAIN input /\ NonEmptyBody(input[N + 1]) /\ N + 1 \notin failed) =>
                     /\ Len(out) = Len(input)
                     /\ out[N] = input[N] /\ out[N].synthetic_data = None
                     /\ Bare(out[N + 1]) = input[N + 1]
                     /\ out[N + 1].synthetic_data # None

\* a run has ended in which a call failed for one record and the next was augmented
C1_Witness ==
    /\ spc = "done"
    /\ \E N \in failed : N + 1 \in AugmentedIn(out_file.pages)

AllOrNothing(seq) ==
    \A n \in DOMAIN seq :
        LET sd == seq[n].synthetic_data
        IN  sd = None \/ (sd.t = "synthetic" /\ sd.article_snippets # None)

\* C2: in every state each record has no synthetic augmentation or one with both
\* the rewrite and the snippet result; a record for which a call failed, the
\* snippet call after a successful rewrite included, has none.
C2_AllOrNothing ==
    /\ AllOrNothing(pages) /\ AllOrNothing(processed_pages) /\ AllOrNothing(out_file.pages)
    /\ \A n \in failed : pages[n].synthetic_data = None

\* the rewrite succeeded, the snippet call failed, and the record has no augmentation
C2_Witness ==
    \E n \in failed :
        /\ <<n, "snippets">> \in Range(calls)
        /\ pages[n].synthetic_data = None


\* the requests issued for a path, and whether its response was fetched
ReqsOf(p) == SelectSeq(requests, LAMBDA r : r.path = p)
FetchedOk(p) == ReqsOf(p) # << >> /\ ReqsOf(p)[Len(ReqsOf(p))].status = "ok"
TypeAt(p) == Get(Page(site[p]), "document_type")

\* the fetched responses of a document type, all and those process_pages has handled
CountFetched(t) ==
    Cardinality({p \in Range(paths) : FetchedOk(p) /\ TypeAt(p) = Str(<<t>>)})
CountHandled(t) ==
    Cardinality({k \in 1..ri : FetchedOk(results[k].path)
                                /\ TypeAt(results[k].path) = Str(<<t>>)})
SkipCount(t) == GetOr(skipped_types, t, 0)

ExcludedTypes == {"placeholder", "redirect", "government", "mainstream_browse_page"}
NoExcludedRecord(seq) ==
    \A n \in DOMAIN seq : \A t \in ExcludedTypes : seq[n].document_type # Str(<<t>>)

\* C3 as stated: no record of an excluded type is produced, and at the end of a
\* run the skip count of each of the four excluded types equals the number of
\* fetched responses of that type.
C3_Original ==
    /\ NoExcludedRecord(gov_pages) /\ NoExcludedRecord(json_file.pages)
    /\ fpc = "done" => \A t \in ExcludedTypes : SkipCount(t) = CountFetched(t)

\* C3 amended: no record of an excluded type is produced; the skip counter of
\* "government" and of "mainstream_browse_page" is the number of fetched responses
\* of that type handled so far (all of them when the run completes); "placeholder"
\* and "redirect" responses are dropped at the request stage and never counted.
C3_SkipCounts ==
    /\ NoExcludedRecord(gov_pages) /\ NoExcludedRecord(json_file.pages)
    /\ fpc \in {"process", "done", "aborted"} =>
         /\ \A t \in {"government", "mainstream_browse_page"} : SkipCount(t) = CountHandled(t)
         /\ \A t \in {"placeholder", "redirect"} : SkipCount(t) = 0
    /\ fpc = "done" =>
         \A t \in {"government", "mainstream_browse_page"} : SkipCount(t) = CountFetched(t)

\* a run has ended that fetched a placeholder and a government page
C3_Witness ==
    /\ fpc = "done"
    /\ CountFetched("placeholder") = 1
    /\ SkipCount("government") = 1

\* a response that validates and has no body after the guide branch
LacksBody(response) ==
    /\ ~NoResponse(response)
    /\ Get(response, "document_type") \notin SKIP_TYPES
    /\ ~ValidationFails(NormalizeGuide(response))
    /\ ~Truthy(GovPage(NormalizeGuide(response)).details.body)

AtLackingBody == fpc = "process" /\ ri < Len(results) /\ LacksBody(results[ri + 1].response)

\* C4: when process_pages reaches a fetched, non-excluded response whose record
\* has no body, the run aborts there: the record is not skipped, no later result
\* is handled, nothing is appended, and the output file is never written.
C4_FailFast ==
    /\ [][/\ AtLackingBody =>
               /\ fpc' = "aborted" /\ fexit' = "1"
               /\ UNCHANGED <<ri, gov_pages, json_file>>
          /\ fpc = "aborted" =>
               /\ fpc' \in {"aborted", "exited"}
               /\ fpc' = "aborted" => UNCHANGED <<ri, gov_pages>>
          /\ fexit = "1" => fexit' = "1"]_vars
    /\ [](fexit = "1" => ~json_file.exists)

\* the run has aborted at a record without body, with a result still behind it
C4_Witness ==
    /\ fpc = "aborted"
    /\ ri + 1 < Len(results)
    /\ LacksBody(results[ri + 1].response)


\* the combined body as the specification words it: (part.title or "Untitled Section")
RECURSIVE ClaimedBody(_)
ClaimedBody(parts) ==
    IF parts = << >> THEN << >>
    ELSE LET part == Head(parts)
             title == IF Truthy(Get(part, "title")) THEN part["title"].s
                      ELSE <<"Untitled Section">>
         IN  (IF Truthy(Get(part, "body"))
              THEN <<"\n\n## ">> \o title \o <<"\n\n">> \o part["body"].s ELSE << >>)
             \o ClaimedBody(Tail(parts))

\* C5 as stated: the body of every record made from a "guide" response with a
\* non-empty parts list is (the markdown of) the concatenation, over the parts
\* with a non-empty body, of "\n\n## " + (title or "Untitled Section") + "\n\n" +
\* body, also for a part whose title is null or empty.
C5_GuideBody ==
    \A n \in DOMAIN gov_pages :
        LET page == gov_pages[n]
        IN  (/\ page.document_type = Str(<<"guide">>)
             /\ page.details.parts # None
             /\ page.details.parts.s # << >>) =>
                page.details.body =
                    Str(convert_html_to_markdown(ClaimedBody(page.details.parts.s)))

\* C6: every queried path has one result, in input order; one GET is issued for
\* it, a second one exactly when the first returned 429, never a third; a request
\* that ends without a response leaves a missing result for that path only.
C6_RequestProtocol ==
    fpc \in {"batch", "query", "process", "done", "aborted"} =>
        /\ Len(results) <= Len(paths)
        /\ fpc \in {"process", "done"} => Len(results) = Len(paths)
        /\ \A k \in 1..Len(results) : results[k].path = paths[k]
        /\ \A k \in 1..Len(paths) :
             LET rq == ReqsOf(paths[k])
             IN  /\ Len(rq) <= 2
                 /\ k > Len(results) => rq = << >>
                 /\ k <= Len(results) =>
                      /\ Len(rq) >= 1
                      /\ Len(rq) = 2 <=> rq[1].status = "429"
                      /\ rq[Len(rq)].status # "ok" => results[k].response = None

\* a path was answered 429 twice, its result is missing, and the next path's is not
C6_Witness ==
    /\ fpc = "process"
    /\ \E k \in 1..(Len(results) - 1) :
         /\ ReqsOf(paths[k]) = <<[path |-> paths[k], status |-> "429"],
                                 [path |-> paths[k], status |-> "429"]>>
         /\ results[k].response = None
         /\ results[k + 1].response # None

\* response with every expected field that is missing or empty filled in
Repaired(response) ==
    [f \in DOMAIN response \cup Range(important_fields) |->
        IF f \in Range(important_fields) /\ ~Truthy(Get(response, f))
        THEN Str(<<"x">>) ELSE response[f]]

\* a response process_pages tries, whose only defect is a schema discrepancy
Discrepant(response) ==
    /\ ~NoResponse(response)
    /\ Get(response, "document_type") \notin SKIP_TYPES
    /\ missing_fields(response) # << >> \/ dropped_fields(response) # {}
    /\ TryOutcome(Repaired(response)) = "append"

\* an expected field is absent or null
ExpectedFieldUnset(response) ==
    \E f \in Range(important_fields) : Get(response, f).t = "none"

\* C7 as stated: a schema discrepancy never aborts the run.
C7_Original ==
    (fpc = "aborted" /\ ri < Len(results)) => ~Discrepant(results[ri + 1].response)

\* C7 amended: for a response with unknown fields, or with an expected field that
\* is present but empty, the Fetcher logs the warning, appends the record with
\* the fields as given and goes on; for a response with an expected field absent
\* or null it logs the warning and then aborts the run at that record.
C7_SchemaDiscrepancies ==
    [][(fpc = "process" /\ ri < Len(results) /\ Discrepant(results[ri + 1].response)) =>
         LET path == results[ri + 1].path
             response == results[ri + 1].response
         IN  IF ExpectedFieldUnset(response)
             THEN /\ fpc' = "aborted" /\ fexit' = "1"
                  /\ UNCHANGED <<ri, gov_pages>>
                  /\ flog' = flog \o <<Event("missing_fields", path), Event("error", path)>>
             ELSE /\ fpc' = "process" /\ ri' = ri + 1
                  /\ Len(gov_pages') = Len(gov_pages) + 1
                  /\ SubSeq(gov_pages', 1, Len(gov_pages)) = gov_pages
                  /\ \A f \in Range(important_fields) :
                        gov_pages'[Len(gov_pages')][f] = response[f]
                  /\ flog' = flog
                       \o (IF missing_fields(response) # << >>
                           THEN <<Event("missing_fields", path)>> ELSE << >>)
                       \o (IF dropped_fields(response) # {}
                           THEN <<Event("dropped_fields", path)>> ELSE << >>)]_vars

\* a record with an empty title was appended, then a response without title aborted the run
C7_Witness ==
    /\ fpc = "aborted" /\ ri < Len(results)
    /\ Discrepant(results[ri + 1].response)
    /\ ExpectedFieldUnset(results[ri + 1].response)
    /\ \E n \in DOMAIN gov_pages : gov_pages[n].title = Str(<< >>)

\* C8 as stated: with an input file that exists and holds a JSON array of valid
\* records, of any length, the Synthesizer ends without an unhandled error.
C8_CompletesNormally == json_file.exists => spc # "crashed"

\* C9: in a run without failed calls the persisted sequence is the input sequence,
\* record by record, augmented exactly where the body is not empty; a record with
\* an empty body is never sent to the model; a second run on the same file
\* augments the same records as the first.
C9_Coverage ==
    /\ \A c \in Range(calls) : NonEmptyBody(json_file.pages[c[1]])
    /\ (Persisted /\ failed = {}) =>
         LET input == json_file.pages
             out == out_file.pages
         IN  /\ Len(out) = Len(input)
             /\ \A n \in DOMAIN out : Bare(out[n]) = input[n]
             /\ AugmentedIn(out) = {n \in DOMAIN input : NonEmptyBody(input[n])}
             /\ \A r \in DOMAIN clean_runs : clean_runs[r] = AugmentedIn(out)

\* the second run has ended on a file with a record with a body and one without
C9_Witness ==
    /\ spc = "done" /\ runs = 1 /\ failed = {}
    /\ \E n, m \in DOMAIN json_file.pages :
         NonEmptyBody(json_file.pages[n]) /\ ~NonEmptyBody(json_file.pages[m])

NumBatches(n, size) == (n + size - 1) \div size

\* C10: the Synthesizer sleeps one second after every batch but the last, B-1
\* times for B batches; in the Fetcher every batch starts at least one second after
\* the batch before it, so the last starts at least B-1 seconds after the first.
C10_Pacing ==
    /\ Persisted =>
         LET B == NumBatches(Len(pages), SynthBatchSize)
         IN  /\ Len(pauses) = IF B = 0 THEN 0 ELSE B - 1
             /\ \A k \in DOMAIN pauses :
                   pauses[k] = [after |-> (k - 1) * SynthBatchSize, seconds |-> 1]
    /\ \A k \in 2..Len(batch_starts) : batch_starts[k] >= batch_starts[k - 1] + Second
    /\ batch_starts # << >> =>
         batch_starts[Len(batch_starts)] >= batch_starts[1] + (Len(batch_starts) - 1) * Second
    /\ fpc \in {"process", "done", "aborted"} /\ csv.exists =>
         Len(batch_starts) = NumBatches(Len(paths), FetchBatchSize)

\* three batches in both scripts, the Fetcher's second batch started by the throttle
C10_Witness ==
    /\ spc = "done" /\ Len(pauses) = 2
    /\ Len(batch_starts) = 3
    /\ batch_starts[2] = batch_starts[1] + Second
    /\ batch_starts[3] > batch_starts[2] + Second

\* the row of the first occurrence of a path in a column
FirstRow(column, p) ==
    CHOOSE k \in DOMAIN column :
        column[k] = p /\ \A m \in 1..(k - 1) : column[m] # p

\* seq holds every path of the column once, in the order of their first rows
DistinctInFirstOccurrenceOrder(seq, column) ==
    /\ Range(seq) = Range(column)
    /\ \A a \in 1..(Len(seq) - 1) :
          FirstRow(column, seq[a]) < FirstRow(column, seq[a + 1])

\* C11: for every Path column, repeated paths included, the list of paths given to
\* batch_query_govuk_api holds each distinct path of the column exactly once, in the
\* order of first occurrence, and so does the list of paths it has queried once its
\* batches are done.
C11_Deduplication ==
    csv.exists /\ fpc \in {"batch", "query", "process", "done", "aborted"} =>
        /\ DistinctInFirstOccurrenceOrder(paths, csv.Path)
        /\ fpc = "process" =>
              DistinctInFirstOccurrenceOrder([k \in DOMAIN results |-> results[k].path],
                                             csv.Path)

\* a column where a path recurs after a later path's first row, and one of a full
\* batch of paths and a repeat, each queried to the end
C11_Witness ==
    /\ fpc = "process"
    /\ \/ /\ csv.Path = <<2, 1, 2>>
          /\ [k \in DOMAIN results |-> results[k].path] = <<2, 1>>
       \/ /\ Len(csv.Path) = FetchBatchSize + 1
          /\ Len(results) = FetchBatchSize

=============================================================================
